---- MODULE Spec2Model ----
(***************************************************************************)
(* Stage-level complexity functions (stage_complexity.py) and the block    *)
(* constructors they mirror (modules.py) of the SELD repository.           *)
(*                                                                         *)
(* A configuration mapping is an object on a heap, so that a copy and an   *)
(* alias of the caller's mapping are different things.  A Python value of  *)
(* a configuration key is a record [kind, items]: the int 2 is             *)
(* [kind |-> "int", items |-> <<2>>], the list [2, 2] is                     *)
(* [kind |-> "list", items |-> <<2, 2>>], an absent key is kind "none".      *)
(***************************************************************************)
EXTENDS Integers, Sequences, FiniteSets, TLC

VARIABLES
    heap,         \* sequence of configuration mappings; heap[r] is the object r
    original,     \* the caller's mapping as it was when the caller made it
    input_shape,  \* the input shape / the shape of the input tensor
    args,         \* three cost records handed to dict_add
    ret,          \* what the last call returned or raised
    conv_block,   \* the function a conv block constructor returned
    stage,        \* the function res_bottleneck_stage returned
    outs          \* results of the applications of stage, oldest first

vars == <<heap, original, input_shape, args, ret, conv_block, stage, outs>>

\* ------------------------------------------------------------- bounds
MaxLen == 3      \* longest filters / pool_size list
MaxDepth == 3    \* largest depth
MaxApply == 2    \* applications of one returned stage function
MaxCost == 1     \* largest value in a cost record handed to dict_add

\* ------------------------------------------------------ Python values
PyInt(n) == [kind |-> "int", items |-> <<n>>]
PyList(s) == [kind |-> "list", items |-> s]
PyTuple(s) == [kind |-> "tuple", items |-> s]
PyNone == [kind |-> "none", items |-> <<>>]

\* len(v) is defined for lists and tuples; len of an int raises TypeError
Sized(v) == v.kind \in {"list", "tuple"}

SeqsUpTo(S, n) == UNION {[1..k -> S] : k \in 0..n}

\* the caller's mapping is the first object made
CallerRef == 1

EmptyCx == [k \in {} |-> 0]
Cx(f, p) == [k \in {"flops", "params"} |-> IF k = "flops" THEN f ELSE p]
NoShape == [h |-> 0, w |-> 0, c |-> 0]

CeilDiv(a, b) == (a + b - 1) \div b

\* F applied to the value of v, v evaluated once (a local assignment x = v)
Bind(v, F(_)) == CHOOSE out \in {F(x) : x \in {v}} : TRUE

\* ------------------------------------------------------ utils.dict_add
\* key-wise sum of two cost records, a key absent from one side counts as 0
dict_add(first, second) ==
    [k \in (DOMAIN first) \cup (DOMAIN second) |->
        (IF k \in DOMAIN first THEN first[k] ELSE 0)
        + (IF k \in DOMAIN second THEN second[k] ELSE 0)]

\* ------------------------------------------- complexity.py primitives
\* every primitive returns [status, cx, shape]; status "ok" or the failure
Ok(cx, shape) == [status |-> "ok", cx |-> cx, shape |-> shape]
Raise(e) == [status |-> e, cx |-> EmptyCx, shape |-> NoShape]

\* scalar-vs-pair normalisation of a stride or pool size
IsPairLike(v) == v.kind = "int" \/ (Sized(v) /\ Len(v.items) = 2)
safe_tuple(v) == IF v.kind = "int" THEN <<v.items[1], v.items[1]>> ELSE v.items

conv2d_complexity(shape, filters, kernel_size, strides, groups, prev_cx) ==
    IF filters.kind # "int" THEN Raise("TypeError")
    ELSE IF ~IsPairLike(strides) THEN Raise("ValueError")
    ELSE
      Bind(<<shape, filters.items[1], safe_tuple(strides)>>, LAMBDA a :
        Bind(<<CeilDiv(a[1].h, a[3][1]), CeilDiv(a[1].w, a[3][2]),
               kernel_size * kernel_size * (a[1].c \div groups) * a[2]>>,
             LAMBDA o :
               \* o = <<output height, output width, number of weights>>
               Ok(dict_add(prev_cx, Cx(o[3] * o[1] * o[2], o[3] + a[2])),
                  [h |-> o[1], w |-> o[2], c |-> a[2]])))

norm_complexity(shape, prev_cx) ==
    Bind(shape, LAMBDA x :
        Ok(dict_add(prev_cx, Cx(x.h * x.w * x.c, 2 * x.c)), x))

pool2d_complexity(shape, pool_size, strides, prev_cx) ==
    Bind(IF strides.kind = "none" THEN pool_size ELSE strides, LAMBDA st :
      IF ~IsPairLike(pool_size) \/ ~IsPairLike(st) THEN Raise("ValueError")
      ELSE
        Bind(<<shape, safe_tuple(pool_size), safe_tuple(st)>>, LAMBDA a :
          \* a = <<input shape, pool size pair, strides pair>>
          IF a[1].h < a[2][1] \/ a[1].w < a[2][2] THEN Raise("ValueError")
          ELSE
            Bind(<<((a[1].h - a[2][1]) \div a[3][1]) + 1,
                   ((a[1].w - a[2][2]) \div a[3][2]) + 1>>, LAMBDA o :
              Ok(dict_add(prev_cx,
                          Cx(o[1] * o[2] * a[1].c * a[2][1] * a[2][2], 0)),
                 [h |-> o[1], w |-> o[2], c |-> a[1].c]))))

\* the next primitive applied to the result r of the one before, unless that
\* one raised
Then(r, F(_)) == Bind(r, LAMBDA x : IF x.status = "ok" THEN F(x) ELSE x)

\* one residual block's cost: block record [status, cx, shape, shortcut]
Block(r, shortcut) ==
    Bind(r, LAMBDA x :
        [status |-> x.status, cx |-> x.cx, shape |-> x.shape,
         shortcut |-> x.status = "ok" /\ shortcut])

NeedsShortcut(model_config, shape) ==
    \/ ~IsPairLike(model_config.strides)
    \/ safe_tuple(model_config.strides) # <<1, 1>>
    \/ model_config.filters # PyInt(shape.c)

\* two 3x3 convolutions, the first at the block's stride, and the shortcut
res_basic_block_complexity(model_config, shape) ==
    IF model_config.strides.kind = "none" THEN Block(Raise("KeyError"), FALSE)
    ELSE
      Bind(NeedsShortcut(model_config, shape), LAMBDA sc :
        Block(
          Then(conv2d_complexity(shape, model_config.filters, 3,
                                 model_config.strides, 1, EmptyCx), LAMBDA c1 :
          Then(norm_complexity(c1.shape, c1.cx), LAMBDA n1 :
          Then(conv2d_complexity(n1.shape, model_config.filters, 3,
                                 PyInt(1), 1, n1.cx), LAMBDA c2 :
          Then(norm_complexity(c2.shape, c2.cx), LAMBDA n2 :
            IF sc
            THEN conv2d_complexity(shape, model_config.filters, 1,
                                   model_config.strides, 1, n2.cx)
            ELSE n2)))),
          sc))

\* 1x1, 3x3 grouped at the block's stride, 1x1, each with a normalisation,
\* and the shortcut; bottleneck width = floor(filters * bottleneck_ratio)
res_bottleneck_block_complexity(model_config, shape) ==
    IF model_config.strides.kind = "none" THEN Block(Raise("KeyError"), FALSE)
    ELSE IF model_config.filters.kind # "int" THEN Block(Raise("TypeError"), FALSE)
    ELSE
      Bind(<<NeedsShortcut(model_config, shape),
             PyInt((model_config.filters.items[1]
                      * model_config.bottleneck_ratio.num)
                   \div model_config.bottleneck_ratio.den)>>, LAMBDA a :
        \* a = <<shortcut needed, bottleneck_size>>
        Block(
          Then(conv2d_complexity(shape, model_config.filters, 1,
                                 PyInt(1), 1, EmptyCx), LAMBDA c1 :
          Then(norm_complexity(c1.shape, c1.cx), LAMBDA n1 :
          Then(conv2d_complexity(n1.shape, a[2], 3, model_config.strides,
                                 model_config.groups, n1.cx), LAMBDA c2 :
          Then(norm_complexity(c2.shape, c2.cx), LAMBDA n2 :
          Then(conv2d_complexity(n2.shape, model_config.filters, 1,
                                 PyInt(1), 1, n2.cx), LAMBDA c3 :
          Then(norm_complexity(c3.shape, c3.cx), LAMBDA n3 :
            IF a[1]
            THEN conv2d_complexity(shape, model_config.filters, 1,
                                   model_config.strides, 1, n3.cx)
            ELSE n3)))))),
          a[1]))

\* a sequence-transformer block keeps the shape it is given
sepformer_block_complexity(model_config, shape) ==
    Bind(shape, LAMBDA x :
        Block(Ok(Cx(4 * x.h * x.w * x.c * x.c, 4 * x.c * x.c), x), FALSE))

\* --------------------------------------------------- stage_complexity.py
RECURSIVE simple_conv_loop(_, _, _)
\* for i in range(depth): conv2d_complexity, then norm_complexity
simple_conv_loop(r, filters, n) ==
    IF n = 0 THEN r
    ELSE
      Then(r, LAMBDA x :
        simple_conv_loop(
          Then(conv2d_complexity(x.shape, filters, 3, PyInt(1), 1, x.cx),
               LAMBDA c : norm_complexity(c.shape, c.cx)),
          filters, n - 1))

simple_conv_stage_complexity(model_config, shape) ==
    LET filters == model_config.filters
        depth == model_config.depth
        pool_size == model_config.pool_size
        strides == model_config.strides   \* .get('strides', None)
    IN Then(simple_conv_loop(Ok(EmptyCx, shape), filters, depth), LAMBDA r :
         pool2d_complexity(r.shape, pool_size, strides, r.cx))

\* copy.deepcopy: a new object with the same contents
\* faulty variant: no copy, the same object (C2 must notice it)
deepcopy_alias(h, ref) == [heap |-> h, ref |-> ref]
deepcopy(h, ref) == [heap |-> Append(h, h[ref]), ref |-> Len(h) + 1]

\* what one invocation of a per-block function saw and gave back
Call(model_config, shape, b) ==
    [strides |-> model_config.strides, in |-> shape, out |-> b.shape,
     cx |-> b.cx, shortcut |-> b.shortcut]

\* the state of a stage loop: the heap, the running shape and cost, the
\* invocations so far
Enter(h, shape) ==
    [status |-> "ok", heap |-> h, shape |-> shape, total_cx |-> EmptyCx,
     calls |-> <<>>]
Failed(st, e) == [st EXCEPT !.status = e, !.shape = NoShape, !.total_cx = EmptyCx]

\* one iteration of a stage loop whose block gave b: the cost is added, the
\* shape replaced
Accumulate(st, ref, b) ==
    IF b.status # "ok"
    THEN [Failed(st, b.status) EXCEPT
             !.calls = Append(st.calls, Call(st.heap[ref], st.shape, b))]
    ELSE [st EXCEPT
             !.shape = b.shape,
             !.total_cx = dict_add(st.total_cx, b.cx),
             !.calls = Append(st.calls, Call(st.heap[ref], st.shape, b))]

\* model_config['strides'] = 1
SetStridesOne(st, ref) ==
    IF st.status = "ok"
    THEN [st EXCEPT !.heap[ref].strides = PyInt(1)]
    ELSE st

\* faulty variant: strides is never reset (C1 must notice it)
res_basic_iter_keeps_strides(st, ref) ==
    Bind(res_basic_block_complexity(st.heap[ref], st.shape), LAMBDA b :
        Accumulate(st, ref, b))
res_basic_iter(st, ref) ==
    Bind(res_basic_block_complexity(st.heap[ref], st.shape), LAMBDA b :
        Bind(Accumulate(st, ref, b), LAMBDA nx : SetStridesOne(nx, ref)))

RECURSIVE res_basic_loop(_, _, _)
res_basic_loop(st, ref, n) ==
    IF n = 0 THEN st
    ELSE Bind(st, LAMBDA s :
           IF s.status # "ok" THEN s
           ELSE res_basic_loop(res_basic_iter(s, ref), ref, n - 1))

res_basic_stage_complexity(h, ref, shape) ==
    IF h[ref].strides.kind = "none" THEN Failed(Enter(h, shape), "KeyError")
    ELSE
      Bind(deepcopy(h, ref), LAMBDA cp :
        res_basic_loop(Enter(cp.heap, shape), cp.ref, h[ref].depth))

\* faulty variant: total_cx = cx instead of dict_add (C9 must notice it)
res_bottleneck_iter_overwrites_total(st, ref) ==
    Bind(res_bottleneck_block_complexity(st.heap[ref], st.shape), LAMBDA b :
        Bind(Accumulate(st, ref, b), LAMBDA nx :
            SetStridesOne(IF b.status = "ok"
                          THEN [nx EXCEPT !.total_cx = b.cx]
                          ELSE nx, ref)))
res_bottleneck_iter(st, ref) ==
    Bind(res_bottleneck_block_complexity(st.heap[ref], st.shape), LAMBDA b :
        Bind(Accumulate(st, ref, b), LAMBDA nx : SetStridesOne(nx, ref)))

RECURSIVE res_bottleneck_loop(_, _, _)
res_bottleneck_loop(st, ref, n) ==
    IF n = 0 THEN st
    ELSE Bind(st, LAMBDA s :
           IF s.status # "ok" THEN s
           ELSE res_bottleneck_loop(res_bottleneck_iter(s, ref), ref, n - 1))

res_bottleneck_stage_complexity(h, ref, shape) ==
    IF h[ref].strides.kind = "none" THEN Failed(Enter(h, shape), "KeyError")
    ELSE
      Bind(deepcopy(h, ref), LAMBDA cp :
        res_bottleneck_loop(Enter(cp.heap, shape), cp.ref, h[ref].depth))

\* the sepformer loop makes no copy and writes nothing
sepformer_iter(st, ref) ==
    Bind(sepformer_block_complexity(st.heap[ref], st.shape), LAMBDA b :
        Accumulate(st, ref, b))

RECURSIVE sepformer_loop(_, _, _)
sepformer_loop(st, ref, n) ==
    IF n = 0 THEN st
    ELSE Bind(st, LAMBDA s :
           IF s.status # "ok" THEN s
           ELSE sepformer_loop(sepformer_iter(s, ref), ref, n - 1))

sepformer_stage_complexity(h, ref, shape) ==
    sepformer_loop(Enter(h, shape), ref, h[ref].depth)

\* ------------------------------------------------------------ modules.py
\* Keras layers, on shapes.  Conv2D with kernel 1 (padding valid) or kernel 3
\* (padding same) gives ceil(dim / stride); MaxPooling2D gives dim div pool.
Conv2D(x, filters, strides) ==
    [h |-> CeilDiv(x.h, strides[1]), w |-> CeilDiv(x.w, strides[2]),
     c |-> filters]
MaxPooling2D(x, pool) == [h |-> x.h \div pool, w |-> x.w \div pool, c |-> x.c]

LengthMismatch == "len of filters and pool_size do not match"

\* a Python sequence times an int: the sequence repeated n times
RECURSIVE Repeat(_, _)
Repeat(s, n) == IF n <= 0 THEN <<>> ELSE s \o Repeat(s, n - 1)

\* lines 24-27: the filters the returned function iterates over, or a failure
\* faulty variant: the lengths are not compared (C6 must notice it)
conv_filters_never_raises(filters, pool_size) ==
    IF ~Sized(filters) \/ ~Sized(pool_size)
    THEN [status |-> "TypeError", msg |-> "", filters |-> filters]
    ELSE [status |-> "ok", msg |-> "", filters |-> filters]
conv_filters(filters, pool_size) ==
    IF ~Sized(filters)
    THEN [status |-> "TypeError", msg |-> "", filters |-> filters]
    ELSE IF ~Sized(pool_size)
    THEN [status |-> "TypeError", msg |-> "", filters |-> filters]
    ELSE IF Len(filters.items) = 0
    THEN [status |-> "ok", msg |-> "",
          filters |-> [filters EXCEPT
                          !.items = Repeat(@, Len(pool_size.items))]]
    ELSE IF Len(filters.items) # Len(pool_size.items)
    THEN [status |-> "ValueError", msg |-> LengthMismatch, filters |-> filters]
    ELSE [status |-> "ok", msg |-> "", filters |-> filters]

\* lines 29-38: the returned function, on the shape of its input
\* faulty variant: one pooling, after the first convolution (C5 must notice it)
RECURSIVE conv_loop_one_pool(_, _, _, _)
conv_loop_one_pool(inputs, filters, pool_size, i) ==
    IF i > Len(filters) THEN [status |-> "ok", shape |-> inputs]
    ELSE Bind(inputs, LAMBDA x :
           IF x.h < pool_size[1] \/ x.w < pool_size[1]
           THEN [status |-> "ValueError", shape |-> NoShape]
           ELSE conv_loop_one_pool(
                  IF i = 1
                  THEN MaxPooling2D(Conv2D(x, filters[i], <<1, 1>>), pool_size[1])
                  ELSE Conv2D(x, filters[i], <<1, 1>>),
                  filters, pool_size, i + 1))
RECURSIVE conv_loop(_, _, _, _)
conv_loop(inputs, filters, pool_size, i) ==
    IF i > Len(filters) THEN [status |-> "ok", shape |-> inputs]
    ELSE Bind(inputs, LAMBDA x :
           IF x.h < pool_size[i] \/ x.w < pool_size[i]
           THEN [status |-> "ValueError", shape |-> NoShape]
           ELSE conv_loop(
                  MaxPooling2D(Conv2D(x, filters[i], <<1, 1>>), pool_size[i]),
                  filters, pool_size, i + 1))

\* lines 114-125: what res_bottleneck_block reads and derives, or a failure
res_bottleneck_block(model_config) ==
    LET filters == model_config.filters
        strides == model_config.strides
        groups == model_config.groups
        ratio == model_config.bottleneck_ratio
    IN IF strides.kind = "none"
       THEN [status |-> "KeyError", filters |-> 0, strides |-> strides,
             groups |-> groups, bottleneck_size |-> 0]
       ELSE IF filters.kind # "int"
       THEN [status |-> "TypeError", filters |-> 0, strides |-> strides,
             groups |-> groups, bottleneck_size |-> 0]
       ELSE [status |-> "ok",
             filters |-> filters.items[1],
             strides |-> IF strides.kind = "int"
                         THEN PyTuple(<<strides.items[1], strides.items[1]>>)
                         ELSE strides,
             groups |-> groups,
             bottleneck_size |-> (filters.items[1] * ratio.num) \div ratio.den]

\* lines 127-145: the returned block function, on the shape of its input
bottleneck_block(blk, inputs) ==
    Bind(<<Conv2D(Conv2D(Conv2D(inputs, blk.filters, <<1, 1>>),
                         blk.bottleneck_size, blk.strides.items),
                  blk.filters, <<1, 1>>),
           blk.strides # PyTuple(<<1, 1>>) \/ inputs.c # blk.filters>>,
         LAMBDA a :
           \* a = <<out, whether the shortcut projection is built>>
           IF a[1] = (IF a[2]
                      THEN Conv2D(inputs, blk.filters, blk.strides.items)
                      ELSE inputs)
           THEN [status |-> "ok", cx |-> EmptyCx, shape |-> a[1],
                 shortcut |-> a[2]]
           ELSE [status |-> "ValueError", cx |-> EmptyCx, shape |-> NoShape,
                 shortcut |-> a[2]])

\* line 108: res_bottleneck_block(model_config)(x)
BuildAndApply(model_config, x) ==
    Bind(res_bottleneck_block(model_config), LAMBDA blk :
       IF blk.status = "ok" THEN bottleneck_block(blk, x)
       ELSE [status |-> blk.status, cx |-> EmptyCx, shape |-> NoShape,
             shortcut |-> FALSE])

\* lines 98-103 and 111: what the returned stage function closes over
res_bottleneck_stage(h, ref) ==
    IF h[ref].strides.kind = "none"
    THEN [status |-> "KeyError", heap |-> h, depth |-> 0, model_config |-> 0]
    ELSE
      Bind(deepcopy(h, ref), LAMBDA cp :
         [status |-> "ok", heap |-> cp.heap, depth |-> h[ref].depth,
          model_config |-> cp.ref])

\* lines 107-109: one iteration of the returned stage function
stage_iter(st, ref) ==
    Bind(BuildAndApply(st.heap[ref], st.shape), LAMBDA b :
        Bind(Accumulate(st, ref, b), LAMBDA nx : SetStridesOne(nx, ref)))

RECURSIVE stage_loop(_, _, _)
stage_loop(st, ref, n) ==
    IF n = 0 THEN st
    ELSE Bind(st, LAMBDA s :
           IF s.status # "ok" THEN s
           ELSE stage_loop(stage_iter(s, ref), ref, n - 1))

\* lines 105-110: the returned stage function
stage_fn(h, stg, inputs) == stage_loop(Enter(h, inputs), stg.model_config, stg.depth)

\* ------------------------------------------------------- state machine
FilterVals == {16, 32}
PoolVals == {2, 4}
StrideVals ==
    {PyNone, PyInt(1), PyInt(2), PyTuple(<<1, 1>>), PyTuple(<<2, 1>>),
     PyList(<<1, 1>>)}

Configs ==
    [filters : {PyInt(f) : f \in FilterVals}
                 \cup {PyList(s) : s \in SeqsUpTo(FilterVals, MaxLen)},
     pool_size : {PyInt(2)} \cup {PyList(s) : s \in SeqsUpTo(PoolVals, MaxLen)},
     depth : 0..MaxDepth,
     strides : StrideVals,
     groups : {1},
     bottleneck_ratio : {[num |-> 1, den |-> 2]}]

Shapes == [h : {64, 128}, w : {64}, c : {3, 16}]

CostRecords == UNION {[D -> 0..MaxCost] : D \in SUBSET {"flops", "params"}}

NoArgs == <<EmptyCx, EmptyCx, EmptyCx>>

SomeConfig ==
    [filters |-> PyInt(16), pool_size |-> PyInt(2), depth |-> 2,
     strides |-> PyInt(2), groups |-> 1,
     bottleneck_ratio |-> [num |-> 1, den |-> 2]]

NoRet ==
    [fn |-> "none", status |-> "ok", msg |-> "", cx |-> EmptyCx,
     shape |-> NoShape, calls |-> <<>>]
NoConvBlock ==
    [made |-> FALSE, kind |-> "none", filters |-> <<>>, pool_size |-> <<>>]
NoStage == [made |-> FALSE, depth |-> 0, model_config |-> 0]

Init ==
    /\ \/ original \in Configs /\ input_shape \in Shapes /\ args = NoArgs
       \/ /\ original = SomeConfig
          /\ input_shape = [h |-> 64, w |-> 64, c |-> 3]
          /\ args \in CostRecords \X CostRecords \X CostRecords
    /\ heap = <<original>>
    /\ ret = NoRet
    /\ conv_block = NoConvBlock
    /\ stage = NoStage
    /\ outs = <<>>

\* the caller has called nothing yet
Idle == ret.fn = "none" /\ ~conv_block.made /\ ~stage.made

Returned(fn, r, calls) ==
    [fn |-> fn, status |-> r.status, msg |-> "", cx |-> r.cx,
     shape |-> r.shape, calls |-> calls]

CallSimpleConvStageComplexity ==
    /\ Idle
    /\ \E r \in {simple_conv_stage_complexity(heap[CallerRef], input_shape)} :
          ret' = Returned("simple_conv_stage_complexity", r, <<>>)
    /\ UNCHANGED <<heap, original, input_shape, args, conv_block, stage, outs>>

StageReturned(fn, st) ==
    [fn |-> fn, status |-> st.status, msg |-> "", cx |-> st.total_cx,
     shape |-> st.shape, calls |-> st.calls]

CallResBasicStageComplexity ==
    /\ Idle
    /\ \E st \in {res_basic_stage_complexity(heap, CallerRef, input_shape)} : /\ heap' = st.heap
          /\ ret' = StageReturned("res_basic_stage_complexity", st)
    /\ UNCHANGED <<original, input_shape, args, conv_block, stage, outs>>

CallResBottleneckStageComplexity ==
    /\ Idle
    /\ \E st \in {res_bottleneck_stage_complexity(heap, CallerRef, input_shape)} : /\ heap' = st.heap
          /\ ret' = StageReturned("res_bottleneck_stage_complexity", st)
    /\ UNCHANGED <<original, input_shape, args, conv_block, stage, outs>>

CallSepformerStageComplexity ==
    /\ Idle
    /\ \E st \in {sepformer_stage_complexity(heap, CallerRef, input_shape)} : /\ heap' = st.heap
          /\ ret' = StageReturned("sepformer_stage_complexity", st)
    /\ UNCHANGED <<original, input_shape, args, conv_block, stage, outs>>

CallDictAdd ==
    /\ Idle
    /\ ret' = [NoRet EXCEPT !.fn = "dict_add",
                            !.cx = dict_add(args[1], args[2])]
    /\ UNCHANGED <<heap, original, input_shape, args, conv_block, stage, outs>>

\* a conv block constructor: it returns conv_block or raises
Construct(kind) ==
    /\ Idle
    /\ \E f \in {conv_filters(heap[CallerRef].filters,
                                heap[CallerRef].pool_size)} :
          IF f.status = "ok"
          THEN /\ conv_block' = [made |-> TRUE, kind |-> kind,
                                 filters |-> f.filters.items,
                                 pool_size |-> heap[CallerRef].pool_size.items]
               /\ ret' = ret
          ELSE /\ conv_block' = conv_block
               /\ ret' = [NoRet EXCEPT !.fn = kind, !.status = f.status,
                                       !.msg = f.msg]
    /\ UNCHANGED <<heap, original, input_shape, args, stage, outs>>

simple_conv_block == Construct("simple_conv_block")
dynamic_conv_block == Construct("dynamic_conv_block")
cond_conv_block == Construct("cond_conv_block")

\* conv_block(inputs)
ApplyConvBlock ==
    /\ conv_block.made
    /\ ret.fn = "none"
    /\ \E r \in {conv_loop(input_shape, conv_block.filters,
                             conv_block.pool_size, 1)} :
          ret' = [NoRet EXCEPT !.fn = "conv_block", !.status = r.status,
                               !.shape = r.shape]
    /\ UNCHANGED <<heap, original, input_shape, args, conv_block, stage, outs>>

\* res_bottleneck_block(model_config)(inputs)
CallResBottleneckBlock ==
    /\ Idle
    /\ \E b \in {BuildAndApply(heap[CallerRef], input_shape)} :
          ret' = Returned("res_bottleneck_block", b,
                          <<Call(heap[CallerRef], input_shape, b)>>)
    /\ UNCHANGED <<heap, original, input_shape, args, conv_block, stage, outs>>

CallResBottleneckStage ==
    /\ Idle
    /\ \E s \in {res_bottleneck_stage(heap, CallerRef)} : /\ heap' = s.heap
          /\ IF s.status = "ok"
             THEN /\ stage' = [made |-> TRUE, depth |-> s.depth,
                               model_config |-> s.model_config]
                  /\ ret' = ret
             ELSE /\ stage' = stage
                  /\ ret' = [NoRet EXCEPT !.fn = "res_bottleneck_stage",
                                          !.status = s.status]
    /\ UNCHANGED <<original, input_shape, args, conv_block, outs>>

\* stage(inputs), on the same input every time
ApplyStage ==
    /\ stage.made
    /\ Len(outs) < MaxApply
    /\ \E st \in {stage_fn(heap, stage, input_shape)} : /\ heap' = st.heap
          /\ outs' = Append(outs, [status |-> st.status, shape |-> st.shape,
                                   calls |-> st.calls])
    /\ UNCHANGED <<original, input_shape, args, ret, conv_block, stage>>

Next ==
    \/ CallSimpleConvStageComplexity
    \/ CallResBasicStageComplexity
    \/ CallResBottleneckStageComplexity
    \/ CallSepformerStageComplexity
    \/ CallDictAdd
    \/ simple_conv_block
    \/ dynamic_conv_block
    \/ cond_conv_block
    \/ ApplyConvBlock
    \/ CallResBottleneckBlock
    \/ CallResBottleneckStage
    \/ ApplyStage

Spec == Init /\ [][Next]_vars

\* ------------------------------------------------------------- claims
ResidualStages ==
    {"res_basic_stage_complexity", "res_bottleneck_stage_complexity"}
ConvKinds == {"simple_conv_block", "dynamic_conv_block", "cond_conv_block"}

\* C1: a residual stage complexity function that returns with depth >= 1 has
\* invoked the per-block function exactly depth times; the first invocation
\* saw the configured strides and input_shape, every later one saw strides 1
\* and the output shape of the invocation before it, and the shape returned is
\* the last invocation's output.
C1_BlockInvocations ==
    (ret.fn \in ResidualStages /\ ret.status = "ok" /\ original.depth >= 1) =>
        /\ Len(ret.calls) = original.depth
        /\ ret.calls[1].strides = original.strides
        /\ ret.calls[1].in = input_shape
        /\ \A i \in 2..Len(ret.calls) :
              /\ ret.calls[i].strides = PyInt(1)
              /\ ret.calls[i].in = ret.calls[i - 1].out
        /\ ret.shape = ret.calls[Len(ret.calls)].out

C1_Witness ==
    /\ ret.fn = "res_basic_stage_complexity"
    /\ ret.status = "ok"
    /\ original.strides = PyInt(2)
    /\ Len(ret.calls) = 3
    /\ ret.calls[1].strides = PyInt(2)
    /\ ret.calls[3].strides = PyInt(1)
    /\ ret.calls[1].out # input_shape

\* C2: the caller's configuration mapping holds, in every state, the values
\* it held when the caller made it: no call and no application of a returned
\* stage function writes to it.
C2_CallerConfigUnchanged == heap[CallerRef] = original

C2_Witness ==
    /\ stage.made
    /\ Len(outs) = MaxApply
    /\ original.strides = PyInt(2)
    /\ original.depth >= 1
    /\ heap[stage.model_config].strides = PyInt(1)
    /\ heap[CallerRef].strides = PyInt(2)

\* C3: every application of the function res_bottleneck_stage returned builds
\* its first block with the configured strides, and all applications (to the
\* same input shape) give the same output shape.
C3_StageFunctionPure ==
    \A i \in DOMAIN outs :
        (outs[i].status = "ok" /\ Len(outs[i].calls) >= 1) =>
            /\ outs[i].calls[1].strides = original.strides
            /\ outs[i].shape = outs[1].shape

\* C4: for a configuration without a strides key that both functions accept
\* (simple_conv_block with non-empty filters has produced a tensor, and
\* simple_conv_stage_complexity returns), the shape the complexity function
\* returns is that tensor's shape.
C4_ComplexityShapeIsBlockShape ==
    \A r \in {simple_conv_stage_complexity(original, input_shape)} :
        (/\ ret.fn = "conv_block"
         /\ conv_block.kind = "simple_conv_block"
         /\ ret.status = "ok"
         /\ Len(original.filters.items) >= 1
         /\ original.strides = PyNone
         /\ r.status = "ok") =>
            r.shape = ret.shape

RECURSIVE Product(_)
Product(seq) == IF seq = <<>> THEN 1 ELSE Head(seq) * Product(Tail(seq))

\* d is dim reduced by the pool factors, each division rounding down
Reduced(d, dim, pools) ==
    d * Product(pools) <= dim /\ dim < (d + 1) * Product(pools)

\* C5: the tensor the simple conv block gives for filters [f1..fn], n >= 1,
\* has fn channels and each spatial dimension is the input's reduced by every
\* pool factor in turn; filters [16,32], pool_size [2,2] on (64,64,3) give
\* (16,16,32).
C5_ConvBlockShape ==
    (ret.fn = "conv_block" /\ conv_block.kind = "simple_conv_block"
        /\ ret.status = "ok" /\ Len(original.filters.items) >= 1) =>
        /\ ret.shape.c = original.filters.items[Len(original.filters.items)]
        /\ Reduced(ret.shape.h, input_shape.h, original.pool_size.items)
        /\ Reduced(ret.shape.w, input_shape.w, original.pool_size.items)
        /\ (/\ original.filters.items = <<16, 32>>
            /\ original.pool_size.items = <<2, 2>>
            /\ input_shape = [h |-> 64, w |-> 64, c |-> 3])
           => ret.shape = [h |-> 16, w |-> 16, c |-> 32]

C5_Witness ==
    /\ ret.fn = "conv_block"
    /\ conv_block.kind = "simple_conv_block"
    /\ original.filters = PyList(<<16, 32>>)
    /\ original.pool_size = PyList(<<2, 2>>)
    /\ input_shape = [h |-> 64, w |-> 64, c |-> 3]
    /\ ret.shape = [h |-> 16, w |-> 16, c |-> 32]

ListsDiffer ==
    /\ Sized(original.filters)
    /\ Sized(original.pool_size)
    /\ Len(original.filters.items) # Len(original.pool_size.items)

\* C6: with a non-empty filters list whose length differs from pool_size's, no
\* conv block constructor returns a function, and the one that was called
\* raised the failure that names filters and pool_size.
C6_ConstructorsRejectMismatch ==
    (ListsDiffer /\ Len(original.filters.items) >= 1) =>
        /\ ~conv_block.made
        /\ ret.fn \in ConvKinds =>
              ret.status = "ValueError" /\ ret.msg = LengthMismatch

C6_Witness ==
    /\ ret.fn = "dynamic_conv_block"
    /\ ret.status = "ValueError"
    /\ ret.msg = LengthMismatch
    /\ original.filters = PyList(<<16, 32, 16>>)
    /\ original.pool_size = PyList(<<2, 2>>)
    /\ ~conv_block.made

\* C7: simple_conv_stage_complexity, given a non-empty filters list and a
\* pool_size list of a different length that the pooling cost accepts, raises
\* the length-mismatch failure and returns nothing.
C7_StageRejectsMismatch ==
    (/\ ret.fn = "simple_conv_stage_complexity"
     /\ ListsDiffer
     /\ Len(original.filters.items) >= 1
     /\ IsPairLike(original.pool_size)
     /\ original.strides = PyNone) =>
        ret.status = "ValueError" /\ ret.msg = LengthMismatch

\* stride 1 given as the scalar 1 or as a pair (1, 1) of any form
StrideIsOne(strides) ==
    \/ strides = PyInt(1)
    \/ Sized(strides) /\ strides.items = <<1, 1>>

\* C8: res_bottleneck_block builds the shortcut projection exactly when the
\* stride is not 1 or the input channel count is not filters.
C8_ShortcutIff ==
    (ret.fn = "res_bottleneck_block" /\ ret.status = "ok") =>
        (ret.calls[1].shortcut <=>
            ~(StrideIsOne(original.strides)
              /\ input_shape.c = original.filters.items[1]))

RECURSIVE SumOfKey(_, _)
SumOfKey(calls, k) ==
    IF calls = <<>> THEN 0
    ELSE (IF k \in DOMAIN Head(calls).cx THEN Head(calls).cx[k] ELSE 0)
         + SumOfKey(Tail(calls), k)

KeyWiseSum(calls) ==
    [k \in UNION {DOMAIN calls[i].cx : i \in DOMAIN calls} |->
        SumOfKey(calls, k)]

RECURSIVE AddBackwards(_)
AddBackwards(calls) ==
    IF calls = <<>> THEN EmptyCx
    ELSE dict_add(Head(calls).cx, AddBackwards(Tail(calls)))

\* C9: dict_add is associative and commutative with the empty record as
\* identity, a key absent from one record counting as zero; and the total a
\* residual or sepformer stage returns is the key-wise sum of the cost records
\* of its block invocations, in whichever order they are added.
C9_CostAccumulation ==
    /\ dict_add(args[1], dict_add(args[2], args[3]))
          = dict_add(dict_add(args[1], args[2]), args[3])
    /\ dict_add(args[1], args[2]) = dict_add(args[2], args[1])
    /\ dict_add(args[1], EmptyCx) = args[1]
    /\ \A k \in DOMAIN args[1] \ DOMAIN args[2] :
          dict_add(args[1], args[2])[k] = args[1][k]
    /\ (ret.fn \in ResidualStages \cup {"sepformer_stage_complexity"}
          /\ ret.status = "ok") =>
          /\ ret.cx = KeyWiseSum(ret.calls)
          /\ ret.cx = AddBackwards(ret.calls)

C9_Witness ==
    /\ ret.fn = "res_bottleneck_stage_complexity"
    /\ ret.status = "ok"
    /\ Len(ret.calls) = 2
    /\ ret.calls[1].cx # ret.calls[2].cx
    /\ DOMAIN args[1] = {"flops"}
    /\ DOMAIN args[2] = {"params"}
    /\ args[3] # EmptyCx

\* C10: with an empty filters list and a non-empty pool_size, no conv block
\* constructor returns a function.
C10_EmptyFiltersRejected ==
    (/\ Sized(original.filters)
     /\ Len(original.filters.items) = 0
     /\ Sized(original.pool_size)
     /\ Len(original.pool_size.items) >= 1) =>
        ~conv_block.made

====
